---- MODULE Spec2Model ----
(***************************************************************************)
(* Model of the conditioned multi-task sequence models of                  *)
(* generator/models.py (MTCondLSTM, SpecializedBlock, MTCondDG) and of the *)
(* training entry point of train.py.                                       *)
(*                                                                         *)
(* Tensors are modelled by what the code's control flow and errors depend  *)
(* on: their shape, the values held by the categorical columns of the      *)
(* event tensor, the autograd history attached to them (the set of forward *)
(* calls whose graph they reach back into) and the modules that took part  *)
(* in computing them.  Floating point contents are not modelled.  Autograd *)
(* recording is on, as it is unless the caller switches it off.            *)
(***************************************************************************)
EXTENDS Integers, Sequences, FiniteSets, TLC

VARIABLES
    vocabs,     \* the caller's vocabulary mapping (a Python dict, in key order)
    models,     \* the models constructed so far from that mapping, by variant
    nmodels,    \* number of models constructed so far
    held,       \* the recurrent state the caller holds from the last successful forward
    last,       \* what the last forward call did and returned
    ncalls,     \* number of forward calls made so far
    config,     \* train.py: the parsed command line
    env,        \* train.py: what the external collaborators answer
    pc,         \* train.py: position of the __main__ block
    exit_status,\* train.py: status the process terminated with (-1 while running)
    run_called, \* train.py: run(config) has been entered
    train_called\* train.py: cosmo.engine.train has been entered

vars == <<vocabs, models, nmodels, held, last, ncalls,
          config, env, pc, exit_status, run_called, train_called>>

modelVars == <<vocabs, models, nmodels, held, last, ncalls>>
mainVars == <<config, env, pc, exit_status, run_called, train_called>>

----------------------------------------------------------------------------
(* Bounds of the model *)

MaxCalls == 3
MaxBatch == 2

(* Program constants *)

HiddenSize == 256
PrefixLen == 5
LayersShared == 2
LayersSingle == 1
MlpWidth1 == 512
MlpWidth2 == 256
CanonicalFeatures == 3

----------------------------------------------------------------------------
(* Vocabularies.  A vocabulary mapping is a sequence of entries in the     *)
(* dict's key order; embedding_layer = 0 stands for "the entry has no      *)
(* embedding_layer key", n > 0 for the nn.Embedding made by the n-th       *)
(* constructed model.                                                      *)

VocabEntry(name, size, emb_dim) ==
    [name |-> name, size |-> size, emb_dim |-> emb_dim, embedding_layer |-> 0]

VocabChoices ==
    { << VocabEntry("activity", 4, 2) >>,
      << VocabEntry("activity", 4, 2), VocabEntry("resource", 9, 3) >>,
      << VocabEntry("resource", 2, 2), VocabEntry("activity", 4, 2) >> }

Keys(v) == { v[i].name : i \in 1..Len(v) }

Lookup(v, name) == v[CHOOSE i \in 1..Len(v) : v[i].name = name]

RECURSIVE SumEmbDim(_, _)
SumEmbDim(v, i) == IF i > Len(v) THEN 0 ELSE v[i].emb_dim + SumEmbDim(v, i + 1)

----------------------------------------------------------------------------
(* Tensors *)

Tensor(shape, hist, src) == [shape |-> shape, hist |-> hist, src |-> src]

NoTensor == Tensor(<< >>, {}, {})

(* A recurrent (hidden, cell) pair: both tensors have the shape            *)
(* (layers, batch, hidden).  alloc tells who made it: "none" (no state),   *)
(* "zeros" (allocated by the recurrent layer because it was handed None)   *)
(* or "lstm" (the final state a recurrent layer computed).                 *)
State(layers, batch, hidden, hist, src, alloc) ==
    [layers |-> layers, batch |-> batch, hidden |-> hidden,
     hist |-> hist, src |-> src, alloc |-> alloc]

NoState == State(0, 0, 0, {}, {}, "none")

(* variant of Detach: the state is handed on as the recurrent layer made it *)
DetachMissing(s) == s

(* tensor.detach(): same values, no autograd history *)
Detach(s) == [s EXCEPT !.hist = {}]

(* tensor.long() on a value given in halves: truncation toward zero *)
Long(v2) == IF v2 >= 0 THEN v2 \div 2 ELSE -((-v2) \div 2)

----------------------------------------------------------------------------
(* Construction *)

(* _set_embeddings, the part that writes into the caller's mapping:        *)
(* vocabs[feature]["embedding_layer"] = emb                                *)
SetEmbeddingsVocabs(v, id) ==
    [i \in 1..Len(v) |-> [v[i] EXCEPT !.embedding_layer = id]]

(* _set_embeddings, the returned nn.ModuleDict: one table per feature *)
SetEmbeddings(v, id) ==
    [i \in 1..Len(v) |->
        [name |-> v[i].name, num_embeddings |-> v[i].size,
         embedding_dim |-> v[i].emb_dim, layer |-> id]]

(* variant of SetInputDim: the numeric columns are not counted *)
SetInputDimEmbOnly(v) == SumEmbDim(v, 1)

(* _set_input_dim *)
SetInputDim(v) == (CanonicalFeatures - Len(v)) + SumEmbDim(v, 1)

(* MTCondLSTM.__init__: in_features -> out_features of self.res_out *)
ResOutLSTM(v) ==
    IF "resource" \in Keys(v) THEN Lookup(v, "resource").size ELSE 1

(* variant of ResOutDG: the resource block is always a regression head *)
ResOutAlwaysOne(v) == 1

(* MTCondDG.__init__: out_dim of self.res_block *)
ResOutDG(v) ==
    IF "resource" \in Keys(v) THEN Lookup(v, "resource").size ELSE 1

(* running statistics of one nn.BatchNorm1d: the num_batches_tracked       *)
(* buffer and the number of updates applied to running_mean/running_var    *)
FreshBN == [num_batches_tracked |-> 0, updates |-> 0]

(* MTCondLSTM.__init__ *)
MTCondLSTM_init(v, id) ==
    [variant |-> "MTCondLSTM",
     training |-> TRUE,
     hidden_size |-> HiddenSize,
     num_layers |-> LayersShared,
     prefix_len |-> PrefixLen,
     embeddings |-> SetEmbeddings(v, id),
     input_dim |-> SetInputDim(v),
     mlp_in |-> 1 + (HiddenSize * PrefixLen),
     bn1 |-> FreshBN,
     bn2 |-> FreshBN,
     act_out |-> Lookup(v, "activity").size,
     rt_out |-> 1,
     res_out |-> ResOutLSTM(v)]

(* MTCondDG.__init__: the trunk and the three SpecializedBlocks, each with *)
(* a one-layer recurrent layer and a linear layer of the task's width      *)
(* (act_out, res_out, rt_out).  The variant has no mlp: mlp_in, bn1 and    *)
(* bn2 only keep the two variants' records of one shape and are not used.  *)
MTCondDG_init(v, id) ==
    [variant |-> "MTCondDG",
     training |-> TRUE,
     hidden_size |-> HiddenSize,
     num_layers |-> LayersSingle,
     prefix_len |-> PrefixLen,
     embeddings |-> SetEmbeddings(v, id),
     input_dim |-> SetInputDim(v),
     mlp_in |-> 0,
     bn1 |-> FreshBN,
     bn2 |-> FreshBN,
     act_out |-> Lookup(v, "activity").size,
     rt_out |-> 1,
     res_out |-> ResOutDG(v)]

----------------------------------------------------------------------------
(* Inputs of a forward call.  The event tensor has shape (B, L, F); cols[i] *)
(* is the set of values, in halves, that column i holds over the batch.     *)

Events(B, L, F, cols) == [B |-> B, L |-> L, F |-> F, cols |-> cols]

(* values a categorical column may hold: 0 and 3.5 -> codes 0 and 3;       *)
(* 4.0 -> code 4; -0.5 -> code 0; -1.0 -> code -1                          *)
ColChoices == { {0}, {0, 7}, {8}, {-1}, {-2} }

NumericCol == {0}

WindowLens == { PrefixLen - 1, PrefixLen }

ColumnChoices(F) ==
    { c \in [1..F -> ColChoices \cup {NumericCol}] :
        \A i \in 1..F : i > 2 => c[i] = NumericCol }

(* well-formed windows: activity, resource and time column, codes in range *)
WindowChoices ==
    { Events(B, PrefixLen, CanonicalFeatures, [i \in 1..CanonicalFeatures |-> {0}]) :
        B \in 1..MaxBatch }

EventChoices ==
    UNION { { Events(B, L, F, cols) :
                B \in 1..MaxBatch, L \in WindowLens, cols \in ColumnChoices(F) } :
            F \in 1..CanonicalFeatures }

----------------------------------------------------------------------------
(* _embed *)

IndexErrorEmbedding == "IndexError: index out of range in self"
IndexErrorDim == "IndexError: index out of bounds for dimension 2"

(* variant of EmbeddingOK: any index is accepted (clamped into the table) *)
EmbeddingClamped(emb, values) == TRUE

(* emb(values): nn.Embedding raises when a looked-up index is outside      *)
(* [0, num_embeddings)                                                     *)
EmbeddingOK(emb, values) ==
    \A v2 \in values : Long(v2) >= 0 /\ Long(v2) < emb.num_embeddings

(* the loop of _embed from feature i on; width is the feature dimension of *)
(* embs so far.  Returns the error raised, or the width of embs.           *)
RECURSIVE EmbedLoop(_, _, _, _, _)
EmbedLoop(v, embeddings, e, i, width) ==
    IF i > Len(v) THEN [err |-> "", width |-> width]
    ELSE IF i > e.F THEN [err |-> IndexErrorDim, width |-> 0]
    ELSE IF ~EmbeddingOK(embeddings[i], e.cols[i])
         THEN [err |-> IndexErrorEmbedding, width |-> 0]
    ELSE EmbedLoop(v, embeddings, e, i + 1, width + embeddings[i].embedding_dim)

(* _embed(e): torch.cat((embs, e[:, :, ix + 1:]), dim=2) appends the       *)
(* F - len(vocabs) columns that follow the last categorical one            *)
Embed(v, embeddings, e, call) ==
    LET r == EmbedLoop(v, embeddings, e, 1, 0) IN
    IF r.err # "" THEN [err |-> r.err, out |-> NoTensor]
    ELSE [err |-> "",
          out |-> Tensor(<< e.B, e.L, r.width + (e.F - Len(v)) >>,
                         {call},
                         {"events", "embeddings"})]

----------------------------------------------------------------------------
(* nn.LSTM(batch_first=True) called as lstm(input, states) *)

RuntimeErrorInput == "RuntimeError: input.size(-1) must be equal to input_size"
RuntimeErrorHidden == "RuntimeError: Expected hidden[0] size"

(* The layer named name, built with (input_size, hidden_size, num_layers), *)
(* applied to input x with the initial state states (NoState for None).    *)
(* h0 is the initial state the layer ran on.                               *)
LSTM(name, input_size, hidden_size, num_layers, x, states, call) ==
    LET h0 == IF states = NoState
              THEN State(num_layers, x.shape[1], hidden_size, {}, {}, "zeros")
              ELSE states
        hist == (x.hist \cup h0.hist) \cup {call}
        src == (x.src \cup h0.src) \cup {name}
    IN
    IF x.shape[3] # input_size
    THEN [err |-> RuntimeErrorInput, h0 |-> h0, out |-> NoTensor, states |-> NoState]
    ELSE IF << h0.layers, h0.batch, h0.hidden >> # << num_layers, x.shape[1], hidden_size >>
    THEN [err |-> RuntimeErrorHidden, h0 |-> h0, out |-> NoTensor, states |-> NoState]
    ELSE [err |-> "", h0 |-> h0,
          out |-> Tensor(<< x.shape[1], x.shape[2], hidden_size >>, hist, src),
          states |-> State(num_layers, x.shape[1], hidden_size, hist, src, "lstm")]

(* variant of Conditioned: the condition column is not appended *)
ConditionedWithoutCondition(encoded) ==
    Tensor(<< encoded.shape[1], encoded.shape[2] * encoded.shape[3] >>,
           encoded.hist, encoded.src)

(* encoded.flatten(1) followed by torch.cat((encoded, condition.view(-1, 1)), dim=1) *)
Conditioned(encoded) ==
    Tensor(<< encoded.shape[1], (encoded.shape[2] * encoded.shape[3]) + 1 >>,
           encoded.hist, encoded.src \cup {"condition"})

RuntimeErrorLinear == "RuntimeError: mat1 and mat2 shapes cannot be multiplied"

(* nn.Linear(in_features, out_features) applied to a (B, width) tensor *)
Linear(name, in_features, out_features, x, call) ==
    IF x.shape[2] # in_features
    THEN [err |-> RuntimeErrorLinear, out |-> NoTensor]
    ELSE [err |-> "",
          out |-> Tensor(<< x.shape[1], out_features >>,
                         x.hist \cup {call},
                         x.src \cup {name})]

ValueErrorBatchNorm == "ValueError: Expected more than 1 value per channel when training"

(* variant of BatchNorm1d: the running statistics are tracked in evaluation *)
(* mode too                                                                 *)
BatchNorm1dAlwaysTracks(bn, training, x) ==
    IF x.shape[1] = 1
    THEN [err |-> ValueErrorBatchNorm,
          bn |-> [bn EXCEPT !.num_batches_tracked = @ + 1],
          out |-> NoTensor]
    ELSE [err |-> "",
          bn |-> [num_batches_tracked |-> bn.num_batches_tracked + 1,
                  updates |-> bn.updates + 1],
          out |-> x]

(* nn.BatchNorm1d applied to a (B, width) tensor.  In training mode the    *)
(* module first adds 1 to num_batches_tracked, then normalises with the    *)
(* batch statistics (which needs more than one row) and folds them into    *)
(* the running statistics; in evaluation mode it reads the running         *)
(* statistics and writes nothing.                                          *)
BatchNorm1d(bn, training, x) ==
    IF training
    THEN IF x.shape[1] = 1
         THEN [err |-> ValueErrorBatchNorm,
               bn |-> [bn EXCEPT !.num_batches_tracked = @ + 1],
               out |-> NoTensor]
         ELSE [err |-> "",
               bn |-> [num_batches_tracked |-> bn.num_batches_tracked + 1,
                       updates |-> bn.updates + 1],
               out |-> x]
    ELSE [err |-> "", bn |-> bn,
          out |-> [x EXCEPT !.src = @ \cup {"running_stats"}]]

(* self.mlp: Linear, BatchNorm1d, ReLU, Linear, BatchNorm1d, ReLU *)
Mlp(m, x, call) ==
    LET l1 == Linear("mlp", m.mlp_in, MlpWidth1, x, call)
        b1 == BatchNorm1d(m.bn1, m.training, l1.out)
        l2 == Linear("mlp", MlpWidth1, MlpWidth2, b1.out, call)
        b2 == BatchNorm1d(m.bn2, m.training, l2.out)
    IN
    IF l1.err # "" THEN [err |-> l1.err, out |-> NoTensor, bn1 |-> m.bn1, bn2 |-> m.bn2]
    ELSE IF b1.err # "" THEN [err |-> b1.err, out |-> NoTensor, bn1 |-> b1.bn, bn2 |-> m.bn2]
    ELSE IF l2.err # "" THEN [err |-> l2.err, out |-> NoTensor, bn1 |-> b1.bn, bn2 |-> m.bn2]
    ELSE IF b2.err # "" THEN [err |-> b2.err, out |-> NoTensor, bn1 |-> b1.bn, bn2 |-> b2.bn]
    ELSE [err |-> "", out |-> b2.out, bn1 |-> b1.bn, bn2 |-> b2.bn]

----------------------------------------------------------------------------
(* Forward passes.  A forward call yields a record: status ("ok" or the    *)
(* error raised), the embedded events, the initial state h0 the encoder    *)
(* ran on, the three outputs, the returned state, the batch-norm buffers   *)
(* after the call and, for MTCondDG, what each specialized block did.      *)

Failed(status, embedded, h0, bn1, bn2) ==
    [status |-> status, embedded |-> embedded, h0 |-> h0,
     next_act |-> NoTensor, next_res |-> NoTensor, next_rt |-> NoTensor,
     states |-> NoState, bn1 |-> bn1, bn2 |-> bn2, blocks |-> << >>]

(* MTCondLSTM.forward(x, states) *)
MTCondLSTM_forward(m, v, e, states, call) ==
    LET events == Embed(v, m.embeddings, e, call)
        enc == LSTM("lstm", m.input_dim, m.hidden_size, m.num_layers,
                    events.out, states, call)
        out == Mlp(m, Conditioned(enc.out), call)
        next_res == Linear("res_out", MlpWidth2, m.res_out, out.out, call)
        next_act == Linear("act_out", MlpWidth2, m.act_out, out.out, call)
        next_rt == Linear("rt_out", MlpWidth2, m.rt_out, out.out, call)
    IN
    IF events.err # "" THEN Failed(events.err, NoTensor, NoState, m.bn1, m.bn2)
    ELSE IF enc.err # "" THEN Failed(enc.err, events.out, enc.h0, m.bn1, m.bn2)
    ELSE IF out.err # "" THEN Failed(out.err, events.out, enc.h0, out.bn1, out.bn2)
    ELSE [status |-> "ok", embedded |-> events.out, h0 |-> enc.h0,
          next_act |-> next_act.out, next_res |-> next_res.out,
          next_rt |-> next_rt.out,
          states |-> Detach(enc.states),
          bn1 |-> out.bn1, bn2 |-> out.bn2, blocks |-> << >>]

(* SpecializedBlock.forward(encoded_x, states, condition) of the block     *)
(* named name, whose linear layer has out_dim outputs                      *)
SpecializedBlock_forward(name, out_dim, encoded_x, states, call) ==
    LET enc == LSTM(name, HiddenSize, HiddenSize, LayersSingle,
                    encoded_x, states, call)
        out == Linear(name, 1 + (HiddenSize * PrefixLen), out_dim,
                      Conditioned(enc.out), call)
    IN
    [name |-> name,
     err |-> IF enc.err # "" THEN enc.err ELSE out.err,
     x |-> encoded_x,
     h0 |-> enc.h0,
     out |-> IF enc.err # "" THEN NoTensor ELSE out.out,
     states |-> IF enc.err # "" \/ out.err # "" THEN NoState ELSE Detach(enc.states)]

BlockOrder == << "activity_block", "res_block", "time_block" >>

OutDim(m, name) ==
    IF name = "activity_block" THEN m.act_out
    ELSE IF name = "res_block" THEN m.res_out
    ELSE m.rt_out

(* variant of RunBlocks: each block starts from the state the block before *)
(* it returned                                                             *)
RECURSIVE RunBlocksChained(_, _, _, _, _)
RunBlocksChained(m, order, encoded, states, call) ==
    IF order = << >> THEN << >>
    ELSE LET r == SpecializedBlock_forward(Head(order), OutDim(m, Head(order)),
                                           encoded, states, call)
         IN IF r.err # "" THEN << r >>
            ELSE << r >> \o RunBlocksChained(m, Tail(order), encoded, r.states, call)

(* the three block calls of MTCondDG.forward, made in the given order:     *)
(* every block is handed the trunk's encoded output and the trunk's        *)
(* states, and the states it returns are dropped (next_x, _ = ...)         *)
RECURSIVE RunBlocks(_, _, _, _, _)
RunBlocks(m, order, encoded, states, call) ==
    IF order = << >> THEN << >>
    ELSE LET r == SpecializedBlock_forward(Head(order), OutDim(m, Head(order)),
                                           encoded, states, call)
         IN IF r.err # "" THEN << r >>
            ELSE << r >> \o RunBlocks(m, Tail(order), encoded, states, call)

BlockOf(blocks, name) == blocks[CHOOSE i \in 1..Len(blocks) : blocks[i].name = name]

(* the error that ended the block calls, "" when all three returned *)
FirstError(blocks) == blocks[Len(blocks)].err

(* MTCondDG.forward(x, states) *)
MTCondDG_forward(m, v, e, states, call) ==
    LET events == Embed(v, m.embeddings, e, call)
        enc == LSTM("lstm", m.input_dim, m.hidden_size, m.num_layers,
                    events.out, states, call)
        trunk == Detach(enc.states)
        blocks == RunBlocks(m, BlockOrder, enc.out, trunk, call)
    IN
    IF events.err # "" THEN Failed(events.err, NoTensor, NoState, m.bn1, m.bn2)
    ELSE IF enc.err # "" THEN Failed(enc.err, events.out, enc.h0, m.bn1, m.bn2)
    ELSE IF FirstError(blocks) # ""
         THEN [Failed(FirstError(blocks), events.out, enc.h0, m.bn1, m.bn2)
                  EXCEPT !.blocks = blocks]
    ELSE [status |-> "ok", embedded |-> events.out, h0 |-> enc.h0,
          next_act |-> BlockOf(blocks, "activity_block").out,
          next_res |-> BlockOf(blocks, "res_block").out,
          next_rt |-> BlockOf(blocks, "time_block").out,
          states |-> trunk,
          bn1 |-> m.bn1, bn2 |-> m.bn2, blocks |-> blocks]

----------------------------------------------------------------------------
(* The caller's operations on the models.  The caller keeps one model of   *)
(* each variant, both built from the same vocabulary mapping.              *)

Variants == { "MTCondLSTM", "MTCondDG" }

NoModel ==
    [variant |-> "none", training |-> FALSE, hidden_size |-> 0, num_layers |-> 0,
     prefix_len |-> 0, embeddings |-> << >>, input_dim |-> 0, mlp_in |-> 0,
     bn1 |-> FreshBN, bn2 |-> FreshBN, act_out |-> 0, rt_out |-> 0, res_out |-> 0]

NoCall ==
    [m |-> "none", call |-> 0, training |-> FALSE,
     e |-> Events(0, 0, 0, << >>), passed |-> NoState,
     r |-> Failed("", NoTensor, NoState, FreshBN, FreshBN)]

(* MTCondLSTM(vocabs, batch_size) *)
ConstructLSTM ==
    /\ models["MTCondLSTM"] = NoModel
    /\ models' = [models EXCEPT !["MTCondLSTM"] = MTCondLSTM_init(vocabs, nmodels + 1)]
    /\ vocabs' = SetEmbeddingsVocabs(vocabs, nmodels + 1)
    /\ nmodels' = nmodels + 1
    /\ UNCHANGED <<held, last, ncalls, mainVars>>

(* MTCondDG(vocabs, batch_size) *)
ConstructDG ==
    /\ models["MTCondDG"] = NoModel
    /\ models' = [models EXCEPT !["MTCondDG"] = MTCondDG_init(vocabs, nmodels + 1)]
    /\ vocabs' = SetEmbeddingsVocabs(vocabs, nmodels + 1)
    /\ nmodels' = nmodels + 1
    /\ UNCHANGED <<held, last, ncalls, mainVars>>

(* model.train() / model.eval() *)
SetMode(k, training) ==
    /\ models[k] # NoModel
    /\ models[k].training # training
    /\ models' = [models EXCEPT ![k].training = training]
    /\ UNCHANGED <<vocabs, nmodels, held, last, ncalls, mainVars>>

ForwardOf(m, v, e, states, call) ==
    IF m.variant = "MTCondLSTM"
    THEN MTCondLSTM_forward(m, v, e, states, call)
    ELSE MTCondDG_forward(m, v, e, states, call)

(* act, res, rt, states = model((events, condition), states): the caller   *)
(* passes either None or the state it holds; on success it keeps the       *)
(* returned state, on an exception it keeps what it had.                   *)
Forward(k, e, passHeld) ==
    /\ models[k] # NoModel
    /\ ncalls < MaxCalls
    /\ LET states == IF passHeld THEN held ELSE NoState
           r == ForwardOf(models[k], vocabs, e, states, ncalls + 1)
       IN /\ last' = [m |-> k, call |-> ncalls + 1,
                      training |-> models[k].training,
                      e |-> e, passed |-> states, r |-> r]
          /\ models' = [models EXCEPT ![k].bn1 = r.bn1, ![k].bn2 = r.bn2]
          /\ held' = IF r.status = "ok" THEN r.states ELSE held
    /\ ncalls' = ncalls + 1
    /\ UNCHANGED <<vocabs, nmodels, mainVars>>

(* the first forward call made on a model, without a state *)
FirstForward(k, e) == ncalls = 0 /\ Forward(k, e, FALSE)

----------------------------------------------------------------------------
(* train.py *)

Datasets == { "bpi19", "bpi20_permit", "sepsis" }
SizeChoices == { 32, 256, 512 }

NoConfig == [dataset |-> "", hidden_size |-> 0, input_size |-> 0]
NoEnv == [experiment_exists |-> FALSE, log_readers |-> {}]

(* variant of HiddenTooSmall: the comparison is the wrong way round *)
HiddenTooSmallFlipped(c) == c.hidden_size > c.input_size

(* the condition of the size check of __main__ *)
HiddenTooSmall(c) == c.hidden_size < c.input_size

(* if config["dataset"] == "bpi19": exit(0) *)
MainDataset ==
    /\ pc = "start"
    /\ IF config.dataset = "bpi19"
       THEN pc' = "exited" /\ exit_status' = 0
       ELSE pc' = "exists" /\ UNCHANGED exit_status
    /\ UNCHANGED <<config, env, run_called, train_called, modelVars>>

(* if experiment_exists(config): exit(0) *)
MainExists ==
    /\ pc = "exists"
    /\ IF env.experiment_exists
       THEN pc' = "exited" /\ exit_status' = 0
       ELSE pc' = "sizes" /\ UNCHANGED exit_status
    /\ UNCHANGED <<config, env, run_called, train_called, modelVars>>

(* if config["hidden_size"] < config["input_size"]: exit(1) *)
MainSizes ==
    /\ pc = "sizes"
    /\ IF HiddenTooSmall(config)
       THEN pc' = "exited" /\ exit_status' = 1
       ELSE pc' = "run" /\ UNCHANGED exit_status
    /\ UNCHANGED <<config, env, run_called, train_called, modelVars>>

(* run(config): an unknown dataset raises ValueError, which ends the       *)
(* process with status 1; otherwise the data and the model are built and   *)
(* train(...) is called, after which the script ends with status 0         *)
MainRun ==
    /\ pc = "run"
    /\ run_called' = TRUE
    /\ IF config.dataset \notin env.log_readers
       THEN exit_status' = 1 /\ UNCHANGED train_called
       ELSE exit_status' = 0 /\ train_called' = TRUE
    /\ pc' = "exited"
    /\ UNCHANGED <<config, env, modelVars>>

----------------------------------------------------------------------------
(* Specifications *)

ModelsIdle ==
    /\ models = [k \in Variants |-> NoModel]
    /\ nmodels = 0
    /\ held = NoState
    /\ last = NoCall
    /\ ncalls = 0

MainIdle ==
    /\ config = NoConfig
    /\ env = NoEnv
    /\ pc = "idle"
    /\ exit_status = -1
    /\ run_called = FALSE
    /\ train_called = FALSE

Init == vocabs \in VocabChoices /\ ModelsIdle /\ MainIdle

(* sequences of forward calls on well-formed windows, the state of one     *)
(* call fed to the next                                                    *)
Next ==
    \/ ConstructLSTM
    \/ ConstructDG
    \/ \E k \in Variants, t \in BOOLEAN : SetMode(k, t)
    \/ \E k \in Variants, e \in WindowChoices, p \in BOOLEAN : Forward(k, e, p)

Spec == Init /\ [][Next]_vars

(* one forward call on any event tensor *)
NextInputs ==
    \/ ConstructLSTM
    \/ ConstructDG
    \/ \E k \in Variants, t \in BOOLEAN : SetMode(k, t)
    \/ \E k \in Variants, e \in EventChoices : FirstForward(k, e)

SpecInputs == Init /\ [][NextInputs]_vars

(* the training entry point, started on any parsed command line *)
InitMain ==
    /\ vocabs = << >>
    /\ ModelsIdle
    /\ config \in [dataset : Datasets, hidden_size : SizeChoices, input_size : SizeChoices]
    /\ env \in [experiment_exists : BOOLEAN,
                log_readers : { {"bpi19", "bpi20_permit"},
                                {"bpi19", "bpi20_permit", "sepsis"} }]
    /\ pc = "start"
    /\ exit_status = -1
    /\ run_called = FALSE
    /\ train_called = FALSE

NextMain == MainDataset \/ MainExists \/ MainSizes \/ MainRun

SpecMain == InitMain /\ [][NextMain]_vars

----------------------------------------------------------------------------
(* Properties *)

Called == last.m # "none"
Ok == Called /\ last.r.status = "ok"

BlockNames == { BlockOrder[i] : i \in 1..Len(BlockOrder) }

(* the categorical columns of e, for the vocabulary v, that exist *)
CatColumns(v, e) == { i \in 1..Len(v) : i <= e.F }

(* every code of every categorical column of e is inside [0, size) *)
CodesInRange(v, e) ==
    \A i \in CatColumns(v, e) : \A v2 \in e.cols[i] :
        Long(v2) >= 0 /\ Long(v2) < v[i].size

(* a window as the batch contract delivers it: prefix_len events, every    *)
(* categorical column holding whole codes inside [0, size)                 *)
WellFormed(v, e) ==
    /\ e.L = PrefixLen
    /\ CodesInRange(v, e)
    /\ \A i \in CatColumns(v, e) : \A v2 \in e.cols[i] : v2 % 2 = 0

(* C1: the state a forward pass returns, and so the state the caller holds *)
(* and feeds to the next call, carries no autograd history, and what a     *)
(* call computes reaches back into no call before it.                      *)
StateDetached ==
    /\ held.hist = {}
    /\ Ok => /\ last.r.states.hist = {}
             /\ last.r.h0.hist = {}
             /\ last.r.next_act.hist \subseteq {last.call}
             /\ last.r.next_res.hist \subseteq {last.call}
             /\ last.r.next_rt.hist \subseteq {last.call}

(* a forward pass that was fed the state an earlier pass returned *)
StateDetachedWitness ==
    /\ Ok
    /\ last.call >= 2
    /\ last.passed.alloc = "lstm"
    /\ last.r.states.alloc = "lstm"

(* C2: the resource output is as wide as the resource vocabulary when the  *)
(* vocabulary has a resource entry and 1 wide otherwise, in both variants, *)
(* from construction on.                                                   *)
ResourceWidth ==
    \A k \in Variants :
        LET R == IF \E i \in 1..Len(vocabs) : vocabs[i].name = "resource"
                 THEN Lookup(vocabs, "resource").size
                 ELSE 1
        IN /\ models[k] # NoModel => models[k].res_out = R
           /\ (Ok /\ last.m = k) => last.r.next_res.shape = << last.e.B, R >>

ResourceWidthWitness ==
    /\ models["MTCondLSTM"] # NoModel
    /\ models["MTCondDG"] # NoModel
    /\ "resource" \in Keys(vocabs)
    /\ Ok
    /\ last.m = "MTCondDG"
    /\ last.r.next_res.shape[2] > 1

(* C3 as stated: whatever the number F of columns, the embedded events are *)
(* input_dim wide.                                                         *)
EmbedWidthAnyColumns ==
    (Called /\ WellFormed(vocabs, last.e) /\ last.e.F >= Len(vocabs)) =>
        last.r.embedded.shape = << last.e.B, last.e.L, models[last.m].input_dim >>

(* C3 amended: on a batch of three columns with codes in range, _embed     *)
(* returns B rows that are input_dim wide; with F columns the width is     *)
(* input_dim + (F - 3).                                                    *)
EmbedWidthThreeColumns ==
    /\ (Called /\ last.e.F = CanonicalFeatures /\ CodesInRange(vocabs, last.e)) =>
          last.r.embedded.shape = << last.e.B, last.e.L, models[last.m].input_dim >>
    /\ (Called /\ last.r.embedded # NoTensor) =>
          last.r.embedded.shape[3] =
              models[last.m].input_dim + (last.e.F - CanonicalFeatures)

EmbedWidthWitness ==
    /\ Called
    /\ last.e.F = CanonicalFeatures
    /\ last.e.B = MaxBatch
    /\ Len(vocabs) = 2
    /\ last.r.embedded.shape = << MaxBatch, PrefixLen, 6 >>

(* the scenario of C4: vocabulary {activity: size 4}, one window *)
ActivityOnly == Len(vocabs) = 1 /\ vocabs[1].name = "activity" /\ vocabs[1].size = 4

(* C4 as stated: with vocabulary {activity: 4} a forward pass on a single  *)
(* window whose events hold the activity column and the time column        *)
(* returns activity logits of shape (1, 4) and a remaining time of shape   *)
(* (1, 1).                                                                 *)
SingleWindowTwoColumns ==
    (/\ Called
     /\ ActivityOnly
     /\ last.e.B = 1 /\ last.e.F = 2
     /\ WellFormed(vocabs, last.e)) =>
        /\ last.r.status = "ok"
        /\ last.r.next_act.shape = << 1, 4 >>
        /\ last.r.next_rt.shape = << 1, 1 >>

(* C4 amended: on B windows of prefix_len events with three columns and    *)
(* codes in range, a forward pass of MTCondDG, of MTCondLSTM in evaluation *)
(* mode, or of MTCondLSTM in training mode with B >= 2, returns an         *)
(* activity output of shape (B, activity size) and a remaining time of     *)
(* shape (B, 1).  On a two-column tensor the encoder rejects the input,    *)
(* and MTCondLSTM in training mode rejects a single window in its batch    *)
(* normalisation.                                                          *)
ForwardShapes ==
    /\ (/\ Called
        /\ last.e.L = PrefixLen /\ last.e.F = CanonicalFeatures
        /\ CodesInRange(vocabs, last.e)
        /\ (last.m = "MTCondDG" \/ ~last.training \/ last.e.B >= 2)) =>
           /\ last.r.status = "ok"
           /\ last.r.next_act.shape = << last.e.B, Lookup(vocabs, "activity").size >>
           /\ last.r.next_rt.shape = << last.e.B, 1 >>
    /\ (/\ Called
        /\ last.e.F = 2 /\ Len(vocabs) <= 2
        /\ CodesInRange(vocabs, last.e)) =>
           last.r.status = RuntimeErrorInput
    /\ (/\ Called
        /\ last.e.L = PrefixLen /\ last.e.F = CanonicalFeatures
        /\ CodesInRange(vocabs, last.e)
        /\ last.m = "MTCondLSTM" /\ last.training /\ last.e.B = 1) =>
           last.r.status = ValueErrorBatchNorm

(* a single three-column window through MTCondLSTM in evaluation mode *)
ForwardShapesWitness ==
    /\ Ok
    /\ ActivityOnly
    /\ last.m = "MTCondLSTM"
    /\ last.e.B = 1
    /\ last.r.next_act.shape = << 1, 4 >>
    /\ last.r.next_rt.shape = << 1, 1 >>

(* C5: the state the encoder runs on always has the batch size of the      *)
(* current input; when the caller passes a state of another batch size, a  *)
(* new state is allocated for the call.                                    *)
StateBatchMatches ==
    Called =>
        /\ last.r.h0 # NoState => last.r.h0.batch = last.e.B
        /\ (last.passed # NoState /\ last.passed.batch # last.e.B) =>
               last.r.h0.alloc = "zeros"

(* C6 as stated: a forward pass that returns has changed nothing the model *)
(* owns.                                                                   *)
ForwardKeepsModels ==
    [][(ncalls' # ncalls /\ last'.r.status = "ok") => models' = models]_vars

(* C6 amended: a forward pass changes nothing the model owns but the       *)
(* running statistics of the batch normalisation layers, and those only    *)
(* in a training mode pass of MTCondLSTM; a pass in evaluation mode and    *)
(* any pass of MTCondDG change nothing, and only an evaluation mode pass   *)
(* of MTCondLSTM reads the running statistics.                             *)
ForwardKeepsAllButRunningStats ==
    [][ncalls' # ncalls =>
         /\ vocabs' = vocabs
         /\ \A k \in Variants :
              /\ [models'[k] EXCEPT !.bn1 = models[k].bn1, !.bn2 = models[k].bn2]
                    = models[k]
              /\ models'[k] # models[k] =>
                    k = "MTCondLSTM" /\ last'.m = k /\ models[k].training
         /\ "running_stats" \in last'.r.next_act.src =>
                last'.m = "MTCondLSTM" /\ ~last'.training]_vars

(* an evaluation mode pass of MTCondLSTM after a training mode pass has    *)
(* updated the running statistics                                          *)
RunningStatsWitness ==
    /\ Ok
    /\ last.m = "MTCondLSTM"
    /\ ~last.training
    /\ models["MTCondLSTM"].bn2.updates >= 1
    /\ "running_stats" \in last.r.next_act.src

(* C7: the caller's vocabulary mapping holds what it held before any model *)
(* was constructed from it: no entry has gained a field.                   *)
VocabsUnchanged ==
    \A i \in 1..Len(vocabs) : vocabs[i].embedding_layer = 0

(* C8: when a categorical column holds a code outside [0, size), the       *)
(* forward pass raises the embedding's index error and returns nothing.    *)
OutOfRangeCodeFails ==
    (Called /\ ~CodesInRange(vocabs, last.e)) =>
        /\ last.r.status = IndexErrorEmbedding
        /\ last.r.embedded = NoTensor
        /\ last.r.next_act = NoTensor
        /\ last.r.next_res = NoTensor
        /\ last.r.next_rt = NoTensor
        /\ last.r.states = NoState
        /\ held = NoState

(* the second categorical column holds code 4 for a vocabulary of size 4, *)
(* the first is in range                                                   *)
OutOfRangeCodeWitness ==
    /\ Called
    /\ Len(vocabs) = 2 /\ vocabs[2].size = 4
    /\ last.e.F >= 2
    /\ last.e.cols[1] = {0}
    /\ last.e.cols[2] = {8}
    /\ last.r.status = IndexErrorEmbedding

(* C9 as stated: a hidden size smaller than the input size always ends the *)
(* process with a failure status, run and train never entered.             *)
HiddenTooSmallAlwaysFails ==
    (pc = "exited" /\ config.hidden_size < config.input_size) =>
        /\ exit_status # 0
        /\ ~run_called
        /\ ~train_called

(* C9 amended: with a hidden size smaller than the input size run and      *)
(* train are never entered; the process ends with status 1 unless the      *)
(* dataset is bpi19 or the experiment already exists, in which case it     *)
(* has ended with status 0 before the sizes are compared.                  *)
HiddenTooSmallFails ==
    config.hidden_size < config.input_size =>
        /\ ~run_called
        /\ ~train_called
        /\ pc = "exited" =>
              exit_status = IF config.dataset = "bpi19" \/ env.experiment_exists
                            THEN 0 ELSE 1

HiddenTooSmallWitness ==
    /\ pc = "exited"
    /\ config.hidden_size < config.input_size
    /\ config.dataset # "bpi19"
    /\ ~env.experiment_exists
    /\ exit_status = 1

(* the orders the three blocks can be evaluated in *)
BlockOrders ==
    { o \in [1..Len(BlockOrder) -> BlockNames] :
        \A i, j \in 1..Len(BlockOrder) : i # j => o[i] # o[j] }

(* C10: MTCondDG.forward returns the trunk's detached final state; every   *)
(* block starts from that state and from the trunk's output, no block      *)
(* takes part in another block's output or in the returned state, and the  *)
(* outputs are those of the blocks evaluated in any order.                 *)
BlocksIndependent ==
    (Ok /\ last.m = "MTCondDG") =>
        /\ Len(last.r.blocks) = Len(BlockOrder)
        /\ last.r.states.alloc = "lstm"
        /\ last.r.states.hist = {}
        /\ last.r.states.src \cap BlockNames = {}
        /\ "lstm" \in last.r.states.src
        /\ \A i \in 1..Len(last.r.blocks) :
              LET b == last.r.blocks[i] IN
              /\ b.h0 = last.r.states
              /\ b.x = last.r.blocks[1].x
              /\ b.x.src \cap BlockNames = {}
              /\ b.out.src \cap BlockNames = {b.name}
              /\ b.states # last.r.states
        /\ last.r.next_act = BlockOf(last.r.blocks, "activity_block").out
        /\ last.r.next_res = BlockOf(last.r.blocks, "res_block").out
        /\ last.r.next_rt = BlockOf(last.r.blocks, "time_block").out
        /\ \A o \in BlockOrders :
              LET again == RunBlocks(models["MTCondDG"], o, last.r.blocks[1].x,
                                     last.r.states, last.call)
              IN \A n \in BlockNames :
                    BlockOf(again, n).out = BlockOf(last.r.blocks, n).out

(* a pass of MTCondDG that was fed the state an earlier pass returned *)
BlocksIndependentWitness ==
    /\ Ok
    /\ last.m = "MTCondDG"
    /\ last.passed.alloc = "lstm"
    /\ last.call >= 2
    /\ last.r.next_res.shape[2] > 1

====
